---- MODULE Spec2Model ----
(***************************************************************************)
(* A model of lune (PiaCOS/lune): Julian time conversion, the discrete     *)
(* phase index, the phase-boundary search and the angle normalisation.     *)
(*                                                                         *)
(* Number representations                                                  *)
(*  - A Julian Day is the exact fixed-point record [whole, num] standing   *)
(*    for whole + num/DayTicks days, 0 <= num < DayTicks.                  *)
(*  - A lunation index k is an integer count of 1/KScale lunations.        *)
(*  - An f64 handled by get_phase and map_to_deg is a binary float of      *)
(*    MantBits significant bits, held as an integer count of 2^-FracBits;  *)
(*    every inexact operation rounds to nearest, ties to even.             *)
(***************************************************************************)
EXTENDS Integers, Sequences, FiniteSets, TLC

VARIABLES
    now,      \* the civil instant read by Utc::now()
    julian,   \* JulianTime::new(now): [utc, day, century]
    lune,     \* the boundary search of Lune::new: [set, k, prev, next]
    ticks,    \* how many times the clock was read again
    op,       \* the function a caller is evaluating, "idle" between calls
    arg,      \* its argument
    ret       \* its result

vars == <<now, julian, lune, ticks, op, arg, ret>>

----------------------------------------------------------------------------
(* Bounds of the model *)

\* significant bits of the model's floats (53 in an f64)
MantBits == 12
\* the smallest float step is 2^-FracBits
FracBits == 14
\* sub-second resolution of a Julian Day handed to to_utc
TicksPerSec == 4
\* a lunation index is held to 1/(4*QuarterScale) of a lunation
QuarterScale == 100
\* how many times the clock is read again after the first query
MaxTicks == 2
\* angles handed to map_to_deg lie in -MaxTurns*360 .. MaxTurns*360 degrees
MaxTurns == 2

----------------------------------------------------------------------------
(* f64 arithmetic, at MantBits bits of precision *)

RECURSIVE Pow2(_)
Pow2(e) == IF e <= 0 THEN 1 ELSE 2 * Pow2(e - 1)

RECURSIVE BitLen(_)
BitLen(a) == IF a <= 0 THEN 0 ELSE 1 + BitLen(a \div 2)

Abs(x) == IF x < 0 THEN -x ELSE x

\* the float standing for the real number v (an integer, or a dyadic one)
One == Pow2(FracBits)
F(v) == v * One

\* round-to-nearest, ties-to-even, of the exact value n
RoundFloat(n) ==
    LET a == Abs(n)
        L == BitLen(a)
    IN  IF L <= MantBits THEN n
        ELSE LET q   == Pow2(L - MantBits)
                 lo  == (a \div q) * q
                 rem == a - lo
                 up  == \/ 2 * rem > q
                        \/ 2 * rem = q /\ (a \div q) % 2 = 1
                 r   == IF up THEN lo + q ELSE lo
             IN  IF n < 0 THEN -r ELSE r

\* the floats of magnitude at most max (max an exact value)
FloatsUpTo(max) ==
    LET small == 0 .. (Pow2(MantBits) - 1)
        big   == { m * Pow2(e) : m \in Pow2(MantBits - 1) .. (Pow2(MantBits) - 1),
                                 e \in 1 .. (BitLen(max) - MantBits) }
        mags  == { a \in small \cup big : a <= max }
    IN  mags \cup { -a : a \in mags }

\* x % y of Rust's f64: the remainder of the truncated division, exact,
\* with the sign of x
FRem(x, y) == IF x >= 0 THEN x % y ELSE -((-x) % y)

\* x.floor() as an integer
Floor(x) == x \div One

\* `x as u8` of a float already floored: the cast saturates
AsU8(i) == IF i < 0 THEN 0 ELSE IF i > 255 THEN 255 ELSE i

----------------------------------------------------------------------------
(* utils.rs *)

map_to_deg(angle) ==
    LET m == FRem(angle, F(360))
    IN  IF m < 0 THEN RoundFloat(m + F(360)) ELSE m

----------------------------------------------------------------------------
(* moon.rs: Phases *)

Phases == << "NewMoon", "WaxingCrescent", "FirstQuarter", "WaxingGibbous",
             "FullMoon", "WaningGibbous", "LastQuarter", "WaningCrescent" >>

Err == "Invalid moon phase number"

from_int_no_alias(n) ==
    IF n \in 0 .. 7 THEN Phases[n + 1] ELSE Err

from_int(n) ==
    CASE n = 0 \/ n = 8 -> "NewMoon"
      [] n = 1 -> "WaxingCrescent"
      [] n = 2 -> "FirstQuarter"
      [] n = 3 -> "WaxingGibbous"
      [] n = 4 -> "FullMoon"
      [] n = 5 -> "WaningGibbous"
      [] n = 6 -> "LastQuarter"
      [] n = 7 -> "WaningCrescent"
      [] OTHER -> Err

\* position of a phase in the enumeration, NewMoon = 0
PhaseOrd(p) == CHOOSE i \in 0 .. 7 : Phases[i + 1] = p

----------------------------------------------------------------------------
(* astro.rs: get_phase, on the illuminated fraction and the elongation the
   series deliver *)

get_phase_same_branch(fraction, d) ==
    AsU8(Floor(fraction * 4))

get_phase(fraction, d) ==
    LET is_waning == d > F(180)
    IN  IF is_waning
        THEN (4 + AsU8(Floor(RoundFloat(One - fraction) * 4))) % 256
        ELSE AsU8(Floor(fraction * 4))

----------------------------------------------------------------------------
(* chrono::DateTime<Utc>: the civil calendar the code decomposes an instant
   with (Datelike, Timelike), and the Unix timestamp it is built from *)

IsLeap(y) == (y % 4 = 0 /\ y % 100 # 0) \/ y % 400 = 0

DaysInMonth(y, m) ==
    IF m = 2 THEN (IF IsLeap(y) THEN 29 ELSE 28)
    ELSE IF m \in {4, 6, 9, 11} THEN 30 ELSE 31

Civil(y, mo, d, h, mi, s) ==
    [year |-> y, month |-> mo, day |-> d, hour |-> h, minute |-> mi, second |-> s]

SecondOfDay(t) == t.hour * 3600 + t.minute * 60 + t.second

\* the same time of day on the next calendar day
NextDay(t) ==
    IF t.day < DaysInMonth(t.year, t.month)
    THEN [t EXCEPT !.day = t.day + 1]
    ELSE IF t.month < 12
    THEN [t EXCEPT !.day = 1, !.month = t.month + 1]
    ELSE [t EXCEPT !.day = 1, !.month = 1, !.year = t.year + 1]

\* the instant one second later
NextSecond(t) ==
    IF t.second < 59 THEN [t EXCEPT !.second = t.second + 1]
    ELSE IF t.minute < 59 THEN [t EXCEPT !.second = 0, !.minute = t.minute + 1]
    ELSE IF t.hour < 23
    THEN [t EXCEPT !.second = 0, !.minute = 0, !.hour = t.hour + 1]
    ELSE NextDay([t EXCEPT !.second = 0, !.minute = 0, !.hour = 0])

\* the order of civil instants
CivilBefore(s, t) ==
    LET a == <<s.year, s.month, s.day, s.hour, s.minute, s.second>>
        b == <<t.year, t.month, t.day, t.hour, t.minute, t.second>>
    IN  \E i \in 1 .. 6 : a[i] < b[i] /\ \A j \in 1 .. (i - 1) : a[j] = b[j]

\* days from 0001-01-01 (day 1) to the date, in the proleptic Gregorian calendar
RECURSIVE DaysBeforeMonth(_, _)
DaysBeforeMonth(y, m) ==
    IF m <= 1 THEN 0 ELSE DaysBeforeMonth(y, m - 1) + DaysInMonth(y, m - 1)

DayNumber(y, m, d) ==
    LET p == y - 1
    IN  365 * p + p \div 4 - p \div 100 + p \div 400 + DaysBeforeMonth(y, m) + d

\* DateTime::timestamp: seconds since 1970-01-01T00:00:00 UTC
Timestamp(t) ==
    (DayNumber(t.year, t.month, t.day) - DayNumber(1970, 1, 1)) * 86400
        + SecondOfDay(t)

\* DateTime::from_timestamp(0, 0)
epoch_dt == Civil(1970, 1, 1, 0, 0, 0)

----------------------------------------------------------------------------
(* julian_time.rs *)

DayTicks == 86400 * TicksPerSec

\* whole + num/DayTicks days, normalised to 0 <= num < DayTicks
Jd(whole, num) ==
    [whole |-> whole + num \div DayTicks, num |-> num % DayTicks]

JdLess(a, b) == a.whole < b.whole \/ (a.whole = b.whole /\ a.num < b.num)

julian_day_number_no_shift(dt) ==
    LET y  == dt.year
        m  == dt.month
        a  == y \div 100
        b  == 2 - a + a \div 4
        jd == (1461 * (y + 4716)) \div 4 + (306001 * (m + 1)) \div 10000
    IN  Jd(jd + dt.day + b - 1525,
           DayTicks \div 2 + SecondOfDay(dt) * TicksPerSec)

julian_day_number(dt) ==
    LET shift == dt.month <= 2
        y  == IF shift THEN dt.year - 1 ELSE dt.year
        m  == IF shift THEN dt.month + 12 ELSE dt.month
        a  == y \div 100
        b  == 2 - a + a \div 4
        \* floor(365.25 * (y + 4716)) + floor(30.6001 * (m + 1))
        jd == (1461 * (y + 4716)) \div 4 + (306001 * (m + 1)) \div 10000
        \* jd + decimal_day + b - 1524.5, decimal_day = day + seconds/86400
    IN  Jd(jd + dt.day + b - 1525,
           DayTicks \div 2 + SecondOfDay(dt) * TicksPerSec)

\* (jd - 2451545.0) / 36525.0, as the exact quotient (days + num/DayTicks) / per
julian_centuries_from_noon_before(jd) ==
    [days |-> jd.whole - 2451544, num |-> jd.num, per |-> 36525]

julian_centuries(jd) ==
    [days |-> jd.whole - 2451545, num |-> jd.num, per |-> 36525]

JulianTime_new(dt) ==
    LET jd == julian_day_number(dt)
    IN  [utc |-> dt, day |-> jd, century |-> julian_centuries(jd)]

\* a Julian Day whose second count no DateTime can hold
OutOfRange == [kind |-> "out_of_range", whole |-> 0, num |-> 0]
Finite(jd) == [kind |-> "finite", whole |-> jd.whole, num |-> jd.num]

\* the result is the Unix timestamp of the DateTime returned
to_utc(jd) ==
    LET jd_epoch == julian_day_number(epoch_dt)
        \* seconds_since_epoch = (jd - jd_epoch) * 86400 = lower + frac/TicksPerSec
        dn    == jd.num - jd_epoch.num
        lower == (jd.whole - jd_epoch.whole) * 86400 + dn \div TicksPerSec
        frac  == dn % TicksPerSec
        \* `as i64` drops the fraction, towards zero
        secs  == IF lower < 0 /\ frac > 0 THEN lower + 1 ELSE lower
    IN  IF jd.kind = "finite" THEN secs ELSE Timestamp(epoch_dt)

----------------------------------------------------------------------------
(* astro.rs: the boundary search.  A lunation index is an integer count of
   1/KScale lunations; a day difference is a count of 1e-5 days. *)

KScale == 4 * QuarterScale

\* (jd - 2451550.09766) / 29.530588861, rounded down to 1/KScale.
\* 29.530588861 days = 2953059 - 0.1139 units of 1e-5 days: the quotient by
\* 2953059 is corrected by the 0.1139 each whole lunation adds.
index_lunation(j) ==
    LET jd == j.day
        dd == (jd.whole - 2451550) * 100000
                 + (jd.num * 125) \div (108 * TicksPerSec) - 9766
        q  == dd \div 2953059
        r  == dd % 2953059
    IN  q * KScale + (r * KScale + (q * KScale * 1139) \div 10000) \div 2953059

\* k % 1.0 of Rust's f64, on the 1/KScale grid: it keeps the sign of k
KRem(k) == IF k >= 0 THEN k % KScale ELSE -((-k) % KScale)

\* k.floor(), on the 1/KScale grid
KFloor(k) == (k \div KScale) * KScale

\* (k % 1.0).abs() < 0.1 || (k % 1.0 - 0.5).abs() < 0.1
is_full_or_new(k) ==
    \/ 10 * Abs(KRem(k)) < KScale
    \/ 10 * Abs(KRem(k) - 2 * QuarterScale) < KScale

\* The Julian Day of the phase at index k is the mean JDE of k plus the
\* correction series that is_full_or_new selects, less DELTA_T; the two series
\* are sums of sines, so the model keeps what determines the day: the index
\* and the series selected.
julian_day_of_phase(k) ==
    [k |-> k, primary |-> is_full_or_new(k)]

prev_phase_number(phase_index) == (AsU8(phase_index) * 2) % 8

next_phase_number_one_step(phase_index) == (AsU8(phase_index) * 2 + 1) % 8

next_phase_number(phase_index) == ((AsU8(phase_index) + 1) * 2) % 8

phases_around(j) ==
    LET k           == index_lunation(j)
        \* ((k % 1.0) * 4.0).floor()
        phase_index == (KRem(k) * 4) \div KScale
        \* k.floor() + phase_index * 0.25
        k_base      == KFloor(k) + phase_index * QuarterScale
    IN  [ set  |-> TRUE,
          k    |-> k,
          prev |-> [ phase |-> from_int(prev_phase_number(phase_index)),
                     at    |-> julian_day_of_phase(k_base) ],
          next |-> [ phase |-> from_int(next_phase_number(phase_index)),
                     at    |-> julian_day_of_phase(k_base + QuarterScale) ] ]

----------------------------------------------------------------------------
(* The inputs *)

TimesOfDay ==
    { <<0, 0, 0>>, <<11, 59, 59>>, <<12, 0, 0>>, <<23, 59, 59>> }

InstantsOf(years) ==
    { Civil(y, m, d, t[1], t[2], t[3]) :
        y \in years, m \in 1 .. 12, d \in 1 .. 31, t \in TimesOfDay }

ValidInstants(years) ==
    { t \in InstantsOf(years) : t.day <= DaysInMonth(t.year, t.month) }

\* ordinary, leap and century years, the one before 1900 and the epoch of J2000
JulianYears == {1899, 1900, 1999, 2000, 2023, 2024, 2100}

\* the year before and the year of the reference new moon of 2000-01-06
LuneYears == {1999, 2000}

Fractions == { f \in FloatsUpTo(One) : f >= 0 }

Elongations == { F(0), F(90), F(180), F(180) + Pow2(FracBits - 1), F(270) }

Angles == FloatsUpTo(F(360 * MaxTurns))

TickSamples ==
    LET w == 3 * TicksPerSec
        h == DayTicks \div 2
    IN  (0 .. w) \cup ((h - w) .. (h + w)) \cup ((DayTicks - w) .. (DayTicks - 1))

JdSamples ==
    LET e == julian_day_number(epoch_dt)
    IN  { Finite(Jd(w, n)) : w \in (e.whole - 1) .. (e.whole + 1), n \in TickSamples }
        \cup { Finite(julian_day_number(t)) : t \in ValidInstants({1969, 2000}) }
        \cup { OutOfRange }

----------------------------------------------------------------------------
(* The clock and JulianTime::new *)

NoLune == [set |-> FALSE]

InitJulian ==
    /\ now \in ValidInstants(JulianYears)
    /\ julian = JulianTime_new(now)
    /\ lune = NoLune
    /\ ticks = 0
    /\ op = "idle" /\ arg = 0 /\ ret = 0

New(t) ==
    /\ ticks < MaxTicks
    /\ ticks' = ticks + 1
    /\ now' = t
    /\ julian' = JulianTime_new(t)
    /\ UNCHANGED <<lune, op, arg, ret>>

NewAfterSecond == New(NextSecond(now))

NewAfterDay == New(NextDay(now))

NextJulian == NewAfterSecond \/ NewAfterDay

SpecJulian == InitJulian /\ [][NextJulian]_vars

----------------------------------------------------------------------------
(* Lune::new: the boundary search around the instant read *)

InitLune ==
    /\ now \in ValidInstants(LuneYears)
    /\ julian = JulianTime_new(now)
    /\ lune = phases_around(julian)
    /\ ticks = 0
    /\ op = "idle" /\ arg = 0 /\ ret = 0

Lune_new(t) ==
    /\ ticks < MaxTicks
    /\ ticks' = ticks + 1
    /\ now' = t
    /\ julian' = JulianTime_new(t)
    /\ lune' = phases_around(JulianTime_new(t))
    /\ UNCHANGED <<op, arg, ret>>

LuneAfterSecond == Lune_new(NextSecond(now))

LuneAfterDay == Lune_new(NextDay(now))

NextLune == LuneAfterSecond \/ LuneAfterDay

SpecLune == InitLune /\ [][NextLune]_vars

----------------------------------------------------------------------------
(* The functions a caller evaluates, one call at a time *)

InitCalls ==
    /\ now = epoch_dt
    /\ julian = JulianTime_new(now)
    /\ lune = NoLune
    /\ ticks = 0
    /\ op = "idle" /\ arg = 0 /\ ret = 0

\* Lune::new, lines 21-32: the phase index of the instant and its Phase
CurrentPhase ==
    /\ op = "idle"
    /\ \E f \in Fractions, d \in Elongations :
         /\ arg' = [fraction |-> f, d |-> d]
         /\ ret' = [phase |-> get_phase(f, d),
                    current_phase |-> from_int(get_phase(f, d))]
    /\ op' = "get_phase"
    /\ UNCHANGED <<now, julian, lune, ticks>>

FromInt ==
    /\ op = "idle"
    /\ \E n \in 0 .. 255 : arg' = n /\ ret' = from_int(n)
    /\ op' = "from_int"
    /\ UNCHANGED <<now, julian, lune, ticks>>

MapToDeg ==
    /\ op = "idle"
    /\ \E x \in Angles : arg' = x /\ ret' = map_to_deg(x)
    /\ op' = "map_to_deg"
    /\ UNCHANGED <<now, julian, lune, ticks>>

ToUtc ==
    /\ op = "idle"
    /\ \E jd \in JdSamples : arg' = jd /\ ret' = to_utc(jd)
    /\ op' = "to_utc"
    /\ UNCHANGED <<now, julian, lune, ticks>>

Return ==
    /\ op # "idle"
    /\ op' = "idle" /\ arg' = 0 /\ ret' = 0
    /\ UNCHANGED <<now, julian, lune, ticks>>

NextCalls == CurrentPhase \/ FromInt \/ MapToDeg \/ ToUtc \/ Return

SpecCalls == InitCalls /\ [][NextCalls]_vars

----------------------------------------------------------------------------
(* The claims *)

\* C1: the two lunation indices phases_around chooses bracket the index k of
\* the query instant, k_base <= k < k_base + 0.25, for negative k as well.
C1_Brackets ==
    lune.set =>
        /\ lune.prev.at.k <= lune.k
        /\ lune.k < lune.prev.at.k + QuarterScale
        /\ lune.next.at.k = lune.prev.at.k + QuarterScale

\* C2, as claimed: the Phase of the next event is one step (mod 8) after the
\* Phase of the previous event in the enumeration NewMoon = 0 .. WaningCrescent = 7.
C2_OneStep ==
    lune.set =>
        PhaseOrd(lune.next.phase) = (PhaseOrd(lune.prev.phase) + 1) % 8

\* C2, amended: the Phase of the next event is two steps (mod 8) after the
\* Phase of the previous event: both are among NewMoon, FirstQuarter, FullMoon
\* and LastQuarter, and follow each other in that cycle.
C2_TwoSteps ==
    lune.set =>
        /\ PhaseOrd(lune.prev.phase) \in {0, 2, 4, 6}
        /\ PhaseOrd(lune.next.phase) = (PhaseOrd(lune.prev.phase) + 2) % 8

\* C2, witness: a query between a last quarter and the new moon after it,
\* where the step wraps around the enumeration.
C2_Witness ==
    /\ lune.set
    /\ ticks > 0
    /\ lune.prev.phase = "LastQuarter"
    /\ lune.next.phase = "NewMoon"

\* the index get_phase yields for the same fraction on the other branch
OtherBranch(a) ==
    get_phase(a.fraction, IF a.d > F(180) THEN F(90) ELSE F(270))

\* C3, as claimed: for every fraction in [0,1] the waxing branch (D <= 180)
\* yields an index in 0-3, the waning branch (D > 180) one in 4-7, and the
\* two differ.
C3_DisjointBranches ==
    op = "get_phase" =>
        /\ arg.d <= F(180) => ret.phase \in 0 .. 3
        /\ arg.d > F(180) => ret.phase \in 4 .. 7
        /\ ret.phase # OtherBranch(arg)

\* C3, amended: for every fraction below 1 the waxing branch yields an index
\* in 0-3 and the waning branch one in 4-8, so the two differ; at fraction 1
\* both branches yield 4.
C3_BranchesBelowOne ==
    op = "get_phase" =>
        /\ arg.fraction < One /\ arg.d <= F(180) => ret.phase \in 0 .. 3
        /\ arg.fraction < One /\ arg.d > F(180) => ret.phase \in 4 .. 8
        /\ arg.fraction < One => ret.phase # OtherBranch(arg)
        /\ arg.fraction = One => ret.phase = 4 /\ OtherBranch(arg) = 4

\* C3, witness: a full disc on the waxing branch, where the index is 4.
C3_Witness ==
    /\ op = "get_phase"
    /\ arg.fraction = One
    /\ arg.d <= F(180)
    /\ ret.phase = 4

\* C4: the index get_phase yields for a fraction in [0,1] lies in 0..8 and
\* converts to a Phase without error; from_int yields the variant of the
\* index for 0-7, NewMoon for 8 and the error for every other u8.
C4_FromIntTotal ==
    /\ op = "get_phase" =>
          /\ ret.phase \in 0 .. 8
          /\ ret.current_phase # Err
          /\ ret.current_phase = Phases[(ret.phase % 8) + 1]
    /\ op = "from_int" =>
          ret = IF arg \in 0 .. 8 THEN Phases[(arg % 8) + 1] ELSE Err

\* C4, witness: the index 8 of an unlit disc on the waning branch, converted
\* to NewMoon.
C4_Witness ==
    /\ op = "get_phase"
    /\ arg.fraction = 0
    /\ ret.phase = 8
    /\ ret.current_phase = "NewMoon"

\* C5: JulianTime::new of 2000-01-01T12:00:00 UTC has day 2451545.0 and
\* century 0.0, and every JulianTime has century = (day - 2451545.0) / 36525.0.
C5_J2000 ==
    /\ julian.utc = now
    /\ julian.century.per = 36525
    /\ julian.century.days + 2451545 = julian.day.whole
    /\ julian.century.num = julian.day.num
    /\ now = Civil(2000, 1, 1, 12, 0, 0) =>
          /\ julian.day = [whole |-> 2451545, num |-> 0]
          /\ julian.century.days = 0 /\ julian.century.num = 0

\* C5, witness: the clock reaches 2000-01-01T12:00:00 from the second before.
C5_Witness ==
    /\ now = Civil(2000, 1, 1, 12, 0, 0)
    /\ ticks > 0
    /\ julian.day.whole = 2451545

\* instants the Julian Day of the clock is compared with
ReferenceInstants ==
    { Civil(y, m, 1, 0, 0, 0) : y \in JulianYears, m \in {1, 3} }

\* C6: the Julian Day Number is strictly increasing in the civil instant (from
\* one reading of the clock to the next, and against the reference instants
\* before and after it), and consecutive calendar days differ by exactly 1.
C6_Monotonic ==
    [][ /\ CivilBefore(now, now') => JdLess(julian.day, julian'.day)
        /\ now' = NextDay(now) =>
              julian'.day = Jd(julian.day.whole + 1, julian.day.num)
        /\ \A t \in ReferenceInstants :
              /\ CivilBefore(t, now') => JdLess(julian_day_number(t), julian'.day)
              /\ CivilBefore(now', t) => JdLess(julian'.day, julian_day_number(t))
      ]_vars

\* C6, witness: the clock passes from 29 February to 1 March of the leap
\* century year 2000.
C6_Witness ==
    /\ now = Civil(2000, 3, 1, 0, 0, 0)
    /\ ticks > 0
    /\ julian.day.whole = 2451604

\* C7: map_to_deg(x) = r with 0 <= r < 360, r the value of x modulo 360 (as
\* the float nearest to it), and map_to_deg(r) = r.
C7_Normalised ==
    op = "map_to_deg" =>
        /\ 0 <= ret /\ ret < F(360)
        /\ ret = RoundFloat(arg % F(360))
        /\ map_to_deg(ret) = ret

\* C8: an event computed at a new-moon or full-moon index (0 or 0.5 modulo 1)
\* uses the primary correction series, one computed at a quarter index (0.25
\* or 0.75 modulo 1) the intermediate series.
C8_SeriesByPosition ==
    lune.set =>
        \A e \in {lune.prev.at, lune.next.at} :
            /\ e.primary <=> (e.k % KScale) \in {0, 2 * QuarterScale}
            /\ ~e.primary <=> (e.k % KScale) \in {QuarterScale, 3 * QuarterScale}

\* C9: the Phase of each event is the one of the lunation index its instant
\* is computed at: NewMoon at 0 modulo 1, FirstQuarter at 0.25, FullMoon at
\* 0.5, LastQuarter at 0.75, for negative indices as well.
C9_LabelByPosition ==
    lune.set =>
        \A ev \in {lune.prev, lune.next} :
            /\ ev.at.k % QuarterScale = 0
            /\ ev.phase = Phases[2 * ((ev.at.k % KScale) \div QuarterScale) + 1]

\* C10: to_utc yields the whole second nearest to (jd - jd_epoch) * 86400,
\* after and before the epoch, so that the Julian Day of a whole-second
\* instant maps back to it; a second count no DateTime holds yields the epoch.
C10_NearestSecond ==
    op = "to_utc" =>
        LET e     == julian_day_number(epoch_dt)
            dn    == arg.num - e.num
            lower == (arg.whole - e.whole) * 86400 + dn \div TicksPerSec
            frac  == dn % TicksPerSec
        IN  IF arg.kind = "finite"
            THEN \/ ret = lower /\ 2 * frac <= TicksPerSec
                 \/ ret = lower + 1 /\ 2 * frac >= TicksPerSec
            ELSE ret = Timestamp(epoch_dt)

====
